---- MODULE Spec2Model ----
(***************************************************************************)
(* Model of two example scripts of the repository:                         *)
(*   patterns/1-Introduction/3-tools.py      (tool-calling loop)            *)
(*   patterns/2-workflow-patterns/2-routing.py (routing workflow functions) *)
(* The hosted model API and the weather endpoint are the environment: what *)
(* they return (or that they fail) is chosen nondeterministically.         *)
(* Coordinates are integers (hundredths of a degree); the scripts never do *)
(* arithmetic on them.                                                     *)
(***************************************************************************)
EXTENDS Integers, Sequences, FiniteSets, TLC

VARIABLES
    pc,             \* 3-tools.py: position of the script
    messages,       \* 3-tools.py: the conversation list
    completion,     \* 3-tools.py: message of the first model response
    idx,            \* 3-tools.py: number of loop iterations begun
    requests_log,   \* 3-tools.py: calls of get_weather, in order, with what each returned
    model_calls,    \* 3-tools.py: calls of the model API, with the conversation sent
    error,          \* 3-tools.py: exception that ended the script, or "none"
    rpc,            \* 2-routing.py: position of the request being processed
    user_input,     \* 2-routing.py: the free-text request
    classification, \* 2-routing.py: result of route_calendar_request
    details,        \* 2-routing.py: parsed extraction record of the handler that ran
    response,       \* 2-routing.py: CalendarResponse returned by a handler
    llm_calls,      \* 2-routing.py: model calls issued, in order
    handler_calls,  \* 2-routing.py: handlers invoked, with the description passed
    rerror          \* 2-routing.py: exception that ended the run, or "none"

toolVars == <<pc, messages, completion, idx, requests_log, model_calls, error>>
routeVars == <<rpc, user_input, classification, details, response, llm_calls,
               handler_calls, rerror>>
vars == <<pc, messages, completion, idx, requests_log, model_calls, error,
          rpc, user_input, classification, details, response, llm_calls,
          handler_calls, rerror>>

(***************************************************************************)
(* Bounds                                                                  *)
(***************************************************************************)
MaxToolCalls == 2
MaxParticipants == 2

(***************************************************************************)
(* Python values that are serialised by json.dumps                         *)
(***************************************************************************)
PyNone == [type |-> "NoneType"]

PyDict(t, w) == [type |-> "dict", temperature_2m |-> t, wind_speed_10m |-> w]

Temperatures == {12, -3}
WindSpeeds == {7}

Latitudes == {4885, -3380}
Longitudes == {235, 4885}

\* json.dumps: None is written as the literal null, a dict as an object
\* with its members in insertion order.
json_dumps(v) ==
    IF v.type = "NoneType"
    THEN "null"
    ELSE "{\"temperature_2m\": " \o ToString(v.temperature_2m)
         \o ", \"wind_speed_10m\": " \o ToString(v.wind_speed_10m) \o "}"

\* json.loads of a JSON object text, given as its members in textual order:
\* a dict from each key to the value of its last occurrence.
LastIndexOf(members, k) ==
    CHOOSE i \in 1..Len(members) :
        /\ members[i][1] = k
        /\ \A j \in (i+1)..Len(members) : members[j][1] # k

json_loads(members) ==
    [k \in {members[i][1] : i \in 1..Len(members)} |->
        members[LastIndexOf(members, k)][2]]

(***************************************************************************)
(* The weather endpoint: what requests.get / response.json() produce       *)
(***************************************************************************)
HttpOutcomes ==
    {[raises |-> TRUE, has_current |-> FALSE, current |-> PyNone]}
    \cup {[raises |-> FALSE, has_current |-> FALSE, current |-> PyNone]}
    \cup {[raises |-> FALSE, has_current |-> TRUE, current |-> PyDict(t, w)] :
            t \in Temperatures, w \in WindSpeeds}

\* get_weather(latitude, longitude): one GET whose URL carries the two
\* coordinates; returns data["current"]; nothing is caught.
get_weather(latitude, longitude, http) ==
    [exception |-> IF http.raises THEN "ConnectionError"
                   ELSE IF ~http.has_current THEN "KeyError"
                   ELSE "none",
     value |-> http.current,
     requests |-> <<[latitude |-> latitude, longitude |-> longitude,
                     returned |-> http.current,
                     failed |-> http.raises \/ ~http.has_current]>>]

\* call_function passing the two coordinates in exchanged positions
call_function_positional(name, args, http) ==
    IF name = "get_weather"
    THEN IF DOMAIN args = {"latitude", "longitude"}
         THEN get_weather(args["longitude"], args["latitude"], http)
         ELSE [exception |-> "TypeError", value |-> PyNone, requests |-> <<>>]
    ELSE [exception |-> "none", value |-> PyNone, requests |-> <<>>]

\* call_function rejecting a name it does not know
call_function_strict(name, args, http) ==
    IF name = "get_weather"
    THEN IF DOMAIN args = {"latitude", "longitude"}
         THEN get_weather(args["latitude"], args["longitude"], http)
         ELSE [exception |-> "TypeError", value |-> PyNone, requests |-> <<>>]
    ELSE [exception |-> "ValueError", value |-> PyNone, requests |-> <<>>]

\* call_function(name, args): literal comparison of the name; any other
\* name falls off the end of the function and returns None.
call_function(name, args, http) ==
    IF name = "get_weather"
    THEN IF DOMAIN args = {"latitude", "longitude"}
         THEN get_weather(args["latitude"], args["longitude"], http)
         ELSE [exception |-> "TypeError", value |-> PyNone, requests |-> <<>>]
    ELSE [exception |-> "none", value |-> PyNone, requests |-> <<>>]

(***************************************************************************)
(* 3-tools.py: the script                                                  *)
(***************************************************************************)
system_prompt == "You are a helpful weather assitant."

InitialMessages ==
    <<[role |-> "system", content |-> system_prompt],
      [role |-> "user", content |-> "What's the weather like in Paris today?"]>>

ToolNames == {"get_weather", "get_time"}

\* Argument texts the model may produce.  The declared tool is strict, so a
\* get_weather call carries exactly latitude and longitude, in either order.
WeatherArguments ==
    {<<<<"latitude", a>>, <<"longitude", b>>>> : a \in Latitudes, b \in Longitudes}
    \cup {<<<<"longitude", b>>, <<"latitude", a>>>> : a \in Latitudes, b \in Longitudes}

OtherArguments == {<<>>, <<<<"timezone", 1>>>>}

ToolCallIds == {"call_a", "call_b", "call_c"}

ToolCallsOfName(n) ==
    [id : ToolCallIds,
     name : {n},
     arguments : IF n = "get_weather" THEN WeatherArguments ELSE OtherArguments]

ToolCalls == UNION {ToolCallsOfName(n) : n \in ToolNames}

SeqsUpTo(S, n) == UNION {[1..k -> S] : k \in 0..n}

\* Tool-call lists of a response: ids are unique within one response.
ToolCallLists ==
    {s \in SeqsUpTo(ToolCalls, MaxToolCalls) :
        \A i, j \in 1..Len(s) : i # j => s[i].id # s[j].id}

\* message of completion.choices[0]: tool_calls is None when the model
\* answers without calling a tool.
AssistantMessages ==
    {[role |-> "assistant", tool_calls_is_None |-> TRUE, tool_calls |-> <<>>]}
    \cup {[role |-> "assistant", tool_calls_is_None |-> FALSE, tool_calls |-> s] :
            s \in ToolCallLists}

NoMessage == [role |-> "assistant", tool_calls_is_None |-> TRUE, tool_calls |-> <<>>]

ToolInit ==
    /\ pc = "create"
    /\ messages = InitialMessages
    /\ completion = NoMessage
    /\ idx = 0
    /\ requests_log = <<>>
    /\ model_calls = <<>>
    /\ error = "none"

\* completion = client.chat.completions.create(...)
FirstModelCall ==
    /\ pc = "create"
    /\ model_calls' = Append(model_calls, [api |-> "create", messages |-> messages])
    /\ \/ \E m \in AssistantMessages :
            /\ completion' = m
            /\ pc' = "loop"
            /\ error' = error
       \/ /\ pc' = "raised"
          /\ error' = "APIError"
          /\ completion' = completion
    /\ UNCHANGED <<messages, idx, requests_log>>

\* for tool_call in completion.choices[0].message.tool_calls: with None
IterateNone ==
    /\ pc = "loop"
    /\ completion.tool_calls_is_None
    /\ pc' = "raised"
    /\ error' = "TypeError"
    /\ UNCHANGED <<messages, completion, idx, requests_log, model_calls>>

\* Loop body that catches a failure of the tool and reports null instead
LoopBodyCatching(tool_call, r) ==
    /\ idx' = idx + 1
    /\ requests_log' = requests_log \o r.requests
    /\ messages' = messages \o
            <<completion,
              [role |-> "tool", tool_call_id |-> tool_call.id,
               content |-> json_dumps(r.value)]>>
    /\ pc' = "loop"
    /\ error' = error
    /\ UNCHANGED <<completion, model_calls>>

\* Loop body that appends the assistant message before the first result only
LoopBodyAssistantOnce(tool_call, r) ==
    /\ idx' = idx + 1
    /\ requests_log' = requests_log \o r.requests
    /\ IF r.exception = "none"
       THEN /\ messages' = (IF idx = 0 THEN Append(messages, completion) ELSE messages)
                    \o <<[role |-> "tool", tool_call_id |-> tool_call.id,
                          content |-> json_dumps(r.value)]>>
            /\ pc' = "loop"
            /\ error' = error
       ELSE /\ messages' = Append(messages, completion)
            /\ pc' = "raised"
            /\ error' = r.exception
    /\ UNCHANGED <<completion, model_calls>>

\* Body of the loop for one tool call, given what call_function produced.
LoopBody(tool_call, r) ==
    /\ idx' = idx + 1
    /\ requests_log' = requests_log \o r.requests
    /\ IF r.exception = "none"
       THEN /\ messages' = messages \o
                    <<completion,
                      [role |-> "tool", tool_call_id |-> tool_call.id,
                       content |-> json_dumps(r.value)]>>
            /\ pc' = "loop"
            /\ error' = error
       ELSE /\ messages' = Append(messages, completion)
            /\ pc' = "raised"
            /\ error' = r.exception
    /\ UNCHANGED <<completion, model_calls>>

\* One iteration of the loop over the tool calls.
ToolCallIteration ==
    /\ pc = "loop"
    /\ ~completion.tool_calls_is_None
    /\ idx < Len(completion.tool_calls)
    /\ \E http \in HttpOutcomes :
        LET tool_call == completion.tool_calls[idx + 1]
            name == tool_call.name
            args == json_loads(tool_call.arguments)
        IN  LoopBody(tool_call, call_function(name, args, http))

\* The loop is exhausted.
LoopExit ==
    /\ pc = "loop"
    /\ ~completion.tool_calls_is_None
    /\ idx = Len(completion.tool_calls)
    /\ pc' = "parse"
    /\ UNCHANGED <<messages, completion, idx, requests_log, model_calls, error>>

\* completion_2 = client.beta.chat.completions.parse(...)
SecondModelCall ==
    /\ pc = "parse"
    /\ model_calls' = Append(model_calls, [api |-> "parse", messages |-> messages])
    /\ \/ /\ pc' = "done"
          /\ error' = error
       \/ /\ pc' = "raised"
          /\ error' = "APIError"
    /\ UNCHANGED <<messages, completion, idx, requests_log>>

RouteIdle ==
    /\ rpc = "idle"
    /\ user_input = ""
    /\ classification = PyNone
    /\ details = PyNone
    /\ response = PyNone
    /\ llm_calls = <<>>
    /\ handler_calls = <<>>
    /\ rerror = "none"

InitTools == ToolInit /\ RouteIdle

NextTools ==
    \/ (FirstModelCall /\ UNCHANGED routeVars)
    \/ (IterateNone /\ UNCHANGED routeVars)
    \/ (ToolCallIteration /\ UNCHANGED routeVars)
    \/ (LoopExit /\ UNCHANGED routeVars)
    \/ (SecondModelCall /\ UNCHANGED routeVars)

SpecTools == InitTools /\ [][NextTools]_vars

(***************************************************************************)
(* 2-routing.py: records                                                   *)
(***************************************************************************)
RequestTypes == {"new_event", "modify_event", "other"}

UserInputs == {"Let's schedule a team sync with Alice and Bob",
               "Move the team sync to Friday"}

Descriptions == {"Schedule a team sync", "Move the team sync"}

\* confidence_score, in tenths
ConfidenceScores == {3, 9}

CalendarRequestTypes ==
    [type : {"CalendarRequestType"}, request_type : RequestTypes,
     confidence_score : ConfidenceScores, description : Descriptions]

EventNames == {"Team Sync", "Lunch"}
Dates == {"2025-01-10T10:00"}
Durations == {"30", "60"}
People == {"Alice", "Bob"}

NewEventDetailsSet ==
    [type : {"NewEventDetails"}, name : EventNames, date : Dates,
     duration_minutes : Durations,
     participants : SeqsUpTo(People, MaxParticipants)]

Changes == [field : {"date"}, new_value : {"2025-01-17T10:00"}]

ModifyEventDetailsSet ==
    [type : {"ModifyEventDetails"}, event_identifier : EventNames,
     changes : SeqsUpTo(Changes, 1),
     participants_to_add : SeqsUpTo({"Carol"}, 1),
     participants_to_remove : SeqsUpTo({"Bob"}, 1)]

CalendarResponse(success, message, calendar_link) ==
    [type |-> "CalendarResponse", success |-> success, message |-> message,
     calendar_link |-> calendar_link]

\* What client.beta.chat.completions.parse yields for a response format:
\* the call raises, or the message's parsed field is None (a refusal), or
\* it is a record of the declared shape.
ParseOutcomes(shapes) ==
    {[raises |-> TRUE, parsed |-> PyNone], [raises |-> FALSE, parsed |-> PyNone]}
    \cup {[raises |-> FALSE, parsed |-> r] : r \in shapes}

\* Exception a function raises when it uses the outcome of a parse call.
ParseFailure(o) ==
    IF o.raises THEN "APIError"
    ELSE IF o.parsed.type = "NoneType" THEN "AttributeError"
    ELSE "none"

\* sep.join(list)
RECURSIVE join(_, _)
join(sep, list) ==
    IF Len(list) = 0 THEN ""
    ELSE IF Len(list) = 1 THEN list[1]
    ELSE list[1] \o sep \o join(sep, Tail(list))

LlmCall(system, user, response_format) ==
    [system |-> system, user |-> user, response_format |-> response_format]

(***************************************************************************)
(* 2-routing.py: functions                                                 *)
(***************************************************************************)
\* route_calendar_request(user_input): one structured-output call; the
\* parsed record is returned as it is.
route_calendar_request ==
    /\ rpc = "Start"
    /\ llm_calls' = Append(llm_calls,
            LlmCall("Determine if this is a request to create a new calendar event or modify an existing one.",
                    user_input, "CalendarRequestType"))
    /\ \E o \in ParseOutcomes(CalendarRequestTypes) :
        IF ParseFailure(o) = "none"
        THEN /\ classification' = o.parsed
             /\ rpc' = "Classified"
             /\ rerror' = rerror
        ELSE /\ classification' = classification
             /\ rpc' = "Raised"
             /\ rerror' = ParseFailure(o)
    /\ UNCHANGED <<user_input, details, response, handler_calls>>

\* Response of handle_new_event with the participants joined by a bare comma
NewEventResponseComma(d) ==
    CalendarResponse(TRUE,
        "Created new event '" \o d.name \o "' for " \o d.date \o " with "
            \o join(",", d.participants),
        "calendar://new?event=" \o d.name)

\* The response record handle_new_event builds from the parsed details.
NewEventResponse(d) ==
    CalendarResponse(TRUE,
        "Created new event '" \o d.name \o "' for " \o d.date \o " with "
            \o join(", ", d.participants),
        "calendar://new?event=" \o d.name)

\* handle_new_event with an error branch that reports the failure in a response
handle_new_event_error_branch(description) ==
    /\ handler_calls' = Append(handler_calls,
            [handler |-> "handle_new_event", description |-> description])
    /\ llm_calls' = Append(llm_calls,
            LlmCall("Extract details for creating a new calendar event.",
                    description, "NewEventDetails"))
    /\ \E o \in ParseOutcomes(NewEventDetailsSet) :
        IF ParseFailure(o) = "none"
        THEN /\ details' = o.parsed
             /\ response' = NewEventResponse(o.parsed)
        ELSE /\ details' = details
             /\ response' = CalendarResponse(FALSE, "Could not create the event", "")
    /\ rpc' = "NewEventHandled"
    /\ rerror' = rerror
    /\ UNCHANGED <<user_input, classification>>

\* handle_new_event(description)
handle_new_event(description) ==
    /\ handler_calls' = Append(handler_calls,
            [handler |-> "handle_new_event", description |-> description])
    /\ llm_calls' = Append(llm_calls,
            LlmCall("Extract details for creating a new calendar event.",
                    description, "NewEventDetails"))
    /\ \E o \in ParseOutcomes(NewEventDetailsSet) :
        IF ParseFailure(o) = "none"
        THEN /\ details' = o.parsed
             /\ response' = NewEventResponse(o.parsed)
             /\ rpc' = "NewEventHandled"
             /\ rerror' = rerror
        ELSE /\ details' = details
             /\ response' = response
             /\ rpc' = "Raised"
             /\ rerror' = ParseFailure(o)
    /\ UNCHANGED <<user_input, classification>>

\* Response of handle_modify_event that also reports the added participants
ModifyEventResponseVerbose(d) ==
    CalendarResponse(TRUE,
        "Modified event '" \o d.event_identifier \o "' with the requested change."
            \o join(", ", d.participants_to_add),
        "calendar://modify?event=" \o d.event_identifier)

\* The response record handle_modify_event builds from the parsed details.
ModifyEventResponse(d) ==
    CalendarResponse(TRUE,
        "Modified event '" \o d.event_identifier \o "' with the requested change.",
        "calendar://modify?event=" \o d.event_identifier)

\* handle_modify_event(description)
handle_modify_event(description) ==
    /\ handler_calls' = Append(handler_calls,
            [handler |-> "handle_modify_event", description |-> description])
    /\ llm_calls' = Append(llm_calls,
            LlmCall("Extract details for modifying an existing calendar event",
                    description, "ModifyEventDetails"))
    /\ \E o \in ParseOutcomes(ModifyEventDetailsSet) :
        IF ParseFailure(o) = "none"
        THEN /\ details' = o.parsed
             /\ response' = ModifyEventResponse(o.parsed)
             /\ rpc' = "ModifyEventHandled"
             /\ rerror' = rerror
        ELSE /\ details' = details
             /\ response' = response
             /\ rpc' = "Raised"
             /\ rerror' = ParseFailure(o)
    /\ UNCHANGED <<user_input, classification>>

(***************************************************************************)
(* The routing flow around the three functions.  The file defines the      *)
(* functions and never calls them; the flow is the one the design note     *)
(* describes: classify, then hand the cleaned description to the handler   *)
(* of the category, and return its response.                               *)
(***************************************************************************)
\* Dispatch table with the two handlers exchanged
HandlerOfSwapped(request_type) ==
    IF request_type = "new_event" THEN "handle_modify_event"
    ELSE IF request_type = "modify_event" THEN "handle_new_event"
    ELSE "none"

\* Dispatch table with a fallback handler for every other category
HandlerOfFallback(request_type) ==
    IF request_type = "modify_event" THEN "handle_modify_event"
    ELSE "handle_new_event"

HandlerOf(request_type) ==
    IF request_type = "new_event" THEN "handle_new_event"
    ELSE IF request_type = "modify_event" THEN "handle_modify_event"
    ELSE "none"

DispatchNewEvent ==
    /\ rpc = "Classified"
    /\ HandlerOf(classification.request_type) = "handle_new_event"
    /\ handle_new_event(classification.description)

DispatchModifyEvent ==
    /\ rpc = "Classified"
    /\ HandlerOf(classification.request_type) = "handle_modify_event"
    /\ handle_modify_event(classification.description)

DispatchOther ==
    /\ rpc = "Classified"
    /\ HandlerOf(classification.request_type) = "none"
    /\ rpc' = "Unhandled"
    /\ UNCHANGED <<user_input, classification, details, response, llm_calls,
                   handler_calls, rerror>>

Respond ==
    /\ rpc \in {"NewEventHandled", "ModifyEventHandled"}
    /\ rpc' = "Responded"
    /\ UNCHANGED <<user_input, classification, details, response, llm_calls,
                   handler_calls, rerror>>

ToolIdle ==
    /\ pc = "idle"
    /\ messages = InitialMessages
    /\ completion = NoMessage
    /\ idx = 0
    /\ requests_log = <<>>
    /\ model_calls = <<>>
    /\ error = "none"

RouteInit ==
    /\ rpc = "Start"
    /\ user_input \in UserInputs
    /\ classification = PyNone
    /\ details = PyNone
    /\ response = PyNone
    /\ llm_calls = <<>>
    /\ handler_calls = <<>>
    /\ rerror = "none"

InitRouting == ToolIdle /\ RouteInit

NextRouting ==
    \/ (route_calendar_request /\ UNCHANGED toolVars)
    \/ (DispatchNewEvent /\ UNCHANGED toolVars)
    \/ (DispatchModifyEvent /\ UNCHANGED toolVars)
    \/ (DispatchOther /\ UNCHANGED toolVars)
    \/ (Respond /\ UNCHANGED toolVars)

SpecRouting == InitRouting /\ [][NextRouting]_vars

(***************************************************************************)
(* Properties of the tool loop (3-tools.py), under SpecTools               *)
(***************************************************************************)
tool_calls == completion.tool_calls

\* The first model call returned a message.
FirstResponded == pc \in {"loop", "parse", "done"} \/ (pc = "raised" /\ idx > 0)
    \/ (pc = "raised" /\ error = "TypeError")
    \/ (pc = "raised" /\ Len(model_calls) = 2)

\* Value of a member of an argument text.
Member(arguments, key) ==
    arguments[CHOOSE i \in 1..Len(arguments) : arguments[i][1] = key][2]

\* Number of get_weather calls among the first k tool calls.
WeatherCallsUpTo(k) ==
    Cardinality({i \in 1..k : tool_calls[i].name = "get_weather"})

\* The i-th iteration ran to its end (the last one begun may have raised).
Completed(i) == i < idx \/ (i = idx /\ ~(pc = "raised" /\ Len(model_calls) = 1))

\* C4: every get_weather tool call that has been dispatched caused exactly
\* one call of get_weather, carrying the latitude and longitude of the
\* call's arguments; when it returned, the tool-role message appended for
\* the call has the call's id and the JSON text of the returned value.
C4_WeatherDispatch ==
    FirstResponded =>
        /\ Len(requests_log) = WeatherCallsUpTo(idx)
        /\ \A i \in 1..idx :
            tool_calls[i].name = "get_weather" =>
                LET req == requests_log[WeatherCallsUpTo(i)]
                IN  /\ req.latitude = Member(tool_calls[i].arguments, "latitude")
                    /\ req.longitude = Member(tool_calls[i].arguments, "longitude")
                    /\ Completed(i) =>
                        /\ Len(messages) >= 2 + 2 * i
                        /\ messages[2 + 2 * i] =
                            [role |-> "tool", tool_call_id |-> tool_calls[i].id,
                             content |-> json_dumps(req.returned)]

C4_Witness ==
    /\ pc = "loop"
    /\ idx = 1
    /\ tool_calls[1].name = "get_weather"
    /\ tool_calls[1].arguments = <<<<"longitude", 235>>, <<"latitude", 4885>>>>
    /\ requests_log = <<[latitude |-> 4885, longitude |-> 235,
                         returned |-> PyDict(12, 7), failed |-> FALSE]>>
    /\ messages[4].content = "{\"temperature_2m\": 12, \"wind_speed_10m\": 7}"

\* C5: a tool call whose name is not get_weather never calls get_weather
\* and never raises; its tool-role message is appended with content null,
\* and the script goes on (to the next tool call or the second model call).
C5_UnknownToolNull ==
    FirstResponded =>
        /\ Len(requests_log) = WeatherCallsUpTo(idx)
        /\ \A i \in 1..idx :
            tool_calls[i].name # "get_weather" =>
                /\ Completed(i)
                /\ Len(messages) >= 2 + 2 * i
                /\ messages[2 + 2 * i] =
                    [role |-> "tool", tool_call_id |-> tool_calls[i].id,
                     content |-> "null"]
                /\ (i = idx => pc \in {"loop", "parse", "done"}
                                \/ (pc = "raised" /\ Len(model_calls) = 2))

C5_Witness ==
    /\ pc = "done"
    /\ Len(tool_calls) = 2
    /\ tool_calls[1].name = "get_time"
    /\ tool_calls[2].name = "get_weather"
    /\ messages[4].content = "null"
    /\ Len(requests_log) = 1
    /\ Len(model_calls) = 2

\* C6: when the first response carries no tool calls, no tool is executed,
\* nothing is appended to the conversation, and the script does not stop
\* before it has issued the second model call.
C6_NoToolCallsStillAnswers ==
    (FirstResponded /\ (completion.tool_calls_is_None \/ Len(tool_calls) = 0)) =>
        /\ requests_log = <<>>
        /\ messages = InitialMessages
        /\ (pc = "raised" => Len(model_calls) = 2)

\* C7: once a call of get_weather has failed, the script has raised that
\* failure: the failing call is the last call begun, no tool-role message
\* exists for it, and only the first model call has been issued.
C7_FailurePropagates ==
    \A k \in 1..Len(requests_log) :
        requests_log[k].failed =>
            /\ k = Len(requests_log)
            /\ pc = "raised"
            /\ error \in {"ConnectionError", "KeyError"}
            /\ tool_calls[idx].name = "get_weather"
            /\ Len(messages) = 2 + 2 * (idx - 1) + 1
            /\ \A j \in 1..Len(messages) :
                messages[j].role = "tool" => messages[j].tool_call_id # tool_calls[idx].id
            /\ Len(model_calls) = 1

C7_Witness ==
    /\ pc = "raised"
    /\ error = "ConnectionError"
    /\ idx = 1
    /\ Len(tool_calls) = 2
    /\ tool_calls[2].name = "get_weather"
    /\ Len(requests_log) = 1
    /\ requests_log[1].failed
    /\ Len(messages) = 3

\* C10: when the first response carries N >= 1 tool calls and the second
\* model call has been issued, the conversation sent with it is the two
\* initial messages followed by N pairs (the assistant message, then the
\* tool-role message of the i-th tool call); every tool call id occurs in
\* exactly one tool-role message; and there is only one second call.
C10_ConversationShape ==
    /\ Len(model_calls) <= 2
    /\ (Len(model_calls) = 2 /\ Len(tool_calls) >= 1) =>
        LET sent == model_calls[2].messages
            N == Len(tool_calls)
        IN  /\ model_calls[2].api = "parse"
            /\ idx = N
            /\ Len(sent) = 2 + 2 * N
            /\ SubSeq(sent, 1, 2) = InitialMessages
            /\ \A i \in 1..N :
                /\ sent[2 * i + 1] = completion
                /\ sent[2 * i + 2].role = "tool"
                /\ sent[2 * i + 2].tool_call_id = tool_calls[i].id
            /\ \A i \in 1..N :
                Cardinality({j \in 1..Len(sent) :
                    /\ sent[j].role = "tool"
                    /\ sent[j].tool_call_id = tool_calls[i].id}) = 1

C10_Witness ==
    /\ pc = "done"
    /\ Len(tool_calls) = 2
    /\ Len(model_calls) = 2
    /\ Len(model_calls[2].messages) = 6
    /\ model_calls[2].messages[4].role = "tool"
    /\ model_calls[2].messages[5].role = "assistant"

(***************************************************************************)
(* Properties of the routing workflow (2-routing.py), under SpecRouting    *)
(***************************************************************************)
ExtractionCalls ==
    {i \in 1..Len(llm_calls) : llm_calls[i].response_format # "CalendarRequestType"}

ClassificationCalls ==
    {i \in 1..Len(llm_calls) : llm_calls[i].response_format = "CalendarRequestType"}

Dispatched == rpc \in {"NewEventHandled", "ModifyEventHandled", "Unhandled", "Responded"}
    \/ (rpc = "Raised" /\ classification.type = "CalendarRequestType")

\* C1: once a classification has been dispatched, new_event has invoked
\* handle_new_event only, modify_event has invoked handle_modify_event
\* only, and other has invoked neither; the handler was given the
\* classification's description.  Before the dispatch no handler has run.
C1_DispatchTable ==
    /\ ~Dispatched => handler_calls = <<>>
    /\ Dispatched =>
        /\ classification.request_type = "new_event" =>
            handler_calls = <<[handler |-> "handle_new_event",
                               description |-> classification.description]>>
        /\ classification.request_type = "modify_event" =>
            handler_calls = <<[handler |-> "handle_modify_event",
                               description |-> classification.description]>>
        /\ classification.request_type = "other" => handler_calls = <<>>

C1_Witness ==
    /\ rpc = "Responded"
    /\ classification.request_type = "modify_event"
    /\ classification.description = "Move the team sync"
    /\ handler_calls = <<[handler |-> "handle_modify_event",
                          description |-> "Move the team sync"]>>

\* The participants text the message is specified to carry: the names in
\* list order, a comma and a space between neighbours.
RECURSIVE ParticipantsText(_)
ParticipantsText(ps) ==
    IF Len(ps) = 0 THEN ""
    ELSE IF Len(ps) = 1 THEN ps[1]
    ELSE ParticipantsText(SubSeq(ps, 1, Len(ps) - 1)) \o ", " \o ps[Len(ps)]

\* C2: every response of handle_new_event has the message
\* "Created new event '<name>' for <date> with <participants>", whatever
\* the duration; for Team Sync / 2025-01-10T10:00 / [Alice, Bob] it is
\* the text of the example, and for no participants it ends after "with ".
C2_NewEventMessage ==
    (response.type = "CalendarResponse" /\ details.type = "NewEventDetails") =>
        /\ response.message =
            "Created new event '" \o details.name \o "' for " \o details.date
                \o " with " \o ParticipantsText(details.participants)
        /\ (details.name = "Team Sync" /\ details.participants = <<"Alice", "Bob">>) =>
            response.message =
                "Created new event 'Team Sync' for 2025-01-10T10:00 with Alice, Bob"
        /\ (details.name = "Lunch" /\ details.participants = <<>>) =>
            response.message = "Created new event 'Lunch' for 2025-01-10T10:00 with "

C2_Witness ==
    /\ rpc = "NewEventHandled"
    /\ details.name = "Team Sync"
    /\ details.duration_minutes = "60"
    /\ details.participants = <<"Alice", "Bob">>
    /\ response.message =
        "Created new event 'Team Sync' for 2025-01-10T10:00 with Alice, Bob"

\* C3: every response of handle_modify_event has the message
\* "Modified event '<event_identifier>' with the requested change.",
\* whatever the changes and the two participant lists.
C3_ModifyEventMessage ==
    (response.type = "CalendarResponse" /\ details.type = "ModifyEventDetails") =>
        /\ response.message =
            "Modified event '" \o details.event_identifier
                \o "' with the requested change."
        /\ details.event_identifier = "Team Sync" =>
            response.message = "Modified event 'Team Sync' with the requested change."

C3_Witness ==
    /\ rpc = "ModifyEventHandled"
    /\ details.event_identifier = "Team Sync"
    /\ Len(details.changes) = 1
    /\ details.participants_to_add = <<"Carol">>
    /\ details.participants_to_remove = <<"Bob">>
    /\ response.message = "Modified event 'Team Sync' with the requested change."

\* Edges of the routing state machine; a failing model call ends the run.
RoutingEdges ==
    {<<"Start", "Classified">>,
     <<"Classified", "NewEventHandled">>,
     <<"Classified", "ModifyEventHandled">>,
     <<"Classified", "Unhandled">>,
     <<"NewEventHandled", "Responded">>,
     <<"ModifyEventHandled", "Responded">>,
     <<"Start", "Raised">>,
     <<"Classified", "Raised">>}

\* What holds of the model calls in every state of a run.
OneShot ==
    /\ rpc # "Start" => (llm_calls # <<>> /\ ClassificationCalls = {1})
    /\ Cardinality(ExtractionCalls) <= 1
    /\ rpc \in {"Start", "Classified", "Unhandled"} => ExtractionCalls = {}
    /\ rpc = "Unhandled" => response.type = "NoneType"
    /\ (rpc # "Start" /\ classification.type = "CalendarRequestType") =>
        (classification.request_type = "other" =>
            /\ rpc \in {"Classified", "Unhandled"}
            /\ ExtractionCalls = {}
            /\ response.type = "NoneType")
    /\ rpc = "Responded" => response.type = "CalendarResponse"

\* C8: every step moves along an edge of Start -> Classified ->
\* {NewEventHandled | ModifyEventHandled | Unhandled} -> Responded (or ends
\* the run with a failure); the classification call is the first and only
\* one of its kind, at most one extraction call is issued, category other
\* leads to Unhandled only, without extraction call or response, and
\* nothing changes once the run is in Unhandled.
C8_StateMachine ==
    [][/\ rpc' # rpc => <<rpc, rpc'>> \in RoutingEdges
       /\ OneShot'
       /\ rpc = "Unhandled" => UNCHANGED routeVars]_vars

C8_Witness ==
    /\ rpc = "Unhandled"
    /\ classification.request_type = "other"
    /\ Len(llm_calls) = 1
    /\ handler_calls = <<>>
    /\ response.type = "NoneType"

\* C9: each handler call issues exactly one model call; when that call
\* fails or yields nothing, the run has raised and no response exists;
\* every response has success = TRUE and the synthetic link of its event.
C9_NoErrorBranch ==
    /\ Cardinality(ExtractionCalls) = Len(handler_calls)
    /\ (handler_calls # <<>> /\ details.type = "NoneType") =>
        /\ rpc = "Raised"
        /\ rerror \in {"APIError", "AttributeError"}
        /\ response.type = "NoneType"
    /\ response.type = "CalendarResponse" =>
        /\ response.success = TRUE
        /\ rerror = "none"
        /\ details.type = "NewEventDetails" =>
            response.calendar_link = "calendar://new?event=" \o details.name
        /\ details.type = "ModifyEventDetails" =>
            response.calendar_link =
                "calendar://modify?event=" \o details.event_identifier

C9_Witness ==
    /\ rpc = "Raised"
    /\ rerror = "AttributeError"
    /\ handler_calls = <<[handler |-> "handle_new_event",
                          description |-> "Schedule a team sync"]>>
    /\ Len(llm_calls) = 2
    /\ response.type = "NoneType"

====
